---- MODULE Spec2Model ----
(***************************************************************************)
(* A model of gdax.py, a command-line client of the GDAX trading API.      *)
(* One run of the model is one invocation: either the shell entry point    *)
(* (main under the KeyboardInterrupt handler) or a direct call of one of   *)
(* the module's order functions.  The exchange is the environment: every   *)
(* response is chosen nondeterministically.                                *)
(***************************************************************************)
EXTENDS Integers, Sequences, FiniteSets, TLC

\* Bounds of the model.
MaxPolls == 4
MaxTicks == 3

(***************************************************************************)
(* JSON values.  A dict is a function over AllKeys, Absent marks a key     *)
(* that is not there; strings and numbers are tagged.                      *)
(***************************************************************************)
AllKeys ==
  {"message", "status", "side", "type", "size", "price", "filled_size",
   "funds", "id", "currency", "balance"}

Absent == [t |-> "absent"]

Str(s) == [t |-> "str", s |-> s]

Num(s) == [t |-> "num", s |-> s]

None == [kind |-> "None"]

Dict(d) == [kind |-> "dict", d |-> d]

List(items) == [kind |-> "list", items |-> items]

EmptyMap == Dict([k \in AllKeys |-> Absent])

Has(v, k) == v.kind = "dict" /\ v.d[k] # Absent

IsStr(x) == x.t = "str"

IsNum(x) == x.t = "num"

(***************************************************************************)
(* Decimal amounts.  A Decimal is int + frac / 10^places; a decimal text   *)
(* is a sequence of characters.                                            *)
(***************************************************************************)
DigitChars == <<"0", "1", "2", "3", "4", "5", "6", "7", "8", "9">>

DigitVal(ch) == (CHOOSE i \in 1..10 : DigitChars[i] = ch) - 1

DigitChr(n) == DigitChars[n + 1]

RECURSIVE IntOf(_)
IntOf(s) == IF s = <<>> THEN 0
            ELSE IntOf(SubSeq(s, 1, Len(s) - 1)) * 10 + DigitVal(s[Len(s)])

RECURSIVE Digits(_)
Digits(n) == IF n < 10 THEN <<DigitChr(n)>>
             ELSE Digits(n \div 10) \o <<DigitChr(n % 10)>>

RECURSIVE Pad(_, _)
Pad(n, w) == IF w = 0 THEN <<>>
             ELSE Pad(n \div 10, w - 1) \o <<DigitChr(n % 10)>>

DotPos(s) == IF \E i \in 1..Len(s) : s[i] = "."
             THEN CHOOSE i \in 1..Len(s) : s[i] = "."
             ELSE 0

\* Decimal(text): the constructor of decimal.Decimal applied to a numeral.
Decimal(s) ==
  IF DotPos(s) = 0
  THEN [int |-> IntOf(s), frac |-> 0, places |-> 0]
  ELSE [int |-> IntOf(SubSeq(s, 1, DotPos(s) - 1)),
        frac |-> IntOf(SubSeq(s, DotPos(s) + 1, Len(s))),
        places |-> Len(s) - DotPos(s)]

\* The rounding '{:.8f}'.format applies to a Decimal: the decimal context's
\* default, round-half-even, at the 8th fractional digit.
RoundsUp(q, rem, unit) ==
  \/ 2 * rem > unit
  \/ 2 * rem = unit /\ q % 2 = 1

\* The value '{:.8f}'.format(d) denotes, as integer part and 8-digit fraction.
Quantize8(d) ==
  IF d.places <= 8
  THEN [int |-> d.int, frac |-> d.frac * 10 ^ (8 - d.places)]
  ELSE LET unit == 10 ^ (d.places - 8)
           q == d.frac \div unit
           rem == d.frac % unit
           f == IF RoundsUp(q, rem, unit) THEN q + 1 ELSE q
       IN IF f = 10 ^ 8 THEN [int |-> d.int + 1, frac |-> 0]
          ELSE [int |-> d.int, frac |-> f]

\* '{:.8f}'.format(d): the text sent to the server.
Format8(d) ==
  LET v == Quantize8(d) IN Digits(v.int) \o <<".">> \o Pad(v.frac, 8)

\* Order of two Decimals of at most 9 places.
DecLeq(a, b) ==
  LET fa == a.frac * 10 ^ (9 - a.places)
      fb == b.frac * 10 ^ (9 - b.places)
  IN a.int < b.int \/ (a.int = b.int /\ fa <= fb)

DecEq(a, b) == DecLeq(a, b) /\ DecLeq(b, a)

\* d cut (rounded down) to 8 places.
Truncate8(d) ==
  IF d.places <= 8 THEN d
  ELSE [int |-> d.int, frac |-> d.frac \div 10 ^ (d.places - 8), places |-> 8]

(***************************************************************************)
(* The exchange's responses: an HTTP status and a body, which is empty,    *)
(* not JSON, or JSON text.                                                 *)
(***************************************************************************)
Amt(s) == Str(s)

Text05 == <<"0", ".", "5">>

Text100 == <<"1", "0", "0">>

Mk(pairs) == Dict([k \in AllKeys |-> IF k \in DOMAIN pairs THEN pairs[k] ELSE Absent])

\* An order as the exchange reports it; rep is how the JSON carries its
\* amounts: as strings (what the exchange sends) or as numbers.
OrderSnap(status, rep) ==
  LET A == [t |-> rep, s |-> Text05]
      P == [t |-> rep, s |-> Text100]
  IN Mk([id |-> Str("o1"), status |-> Str(status), side |-> Str("buy"),
         type |-> Str("limit"), size |-> A, price |-> P,
         filled_size |-> A, funds |-> P])

Statuses == {"pending", "open", "done", "settled", "rejected", "expired"}

Reps == {"str", "num"}

OrderSnaps == {OrderSnap(s, rep) : s \in Statuses, rep \in Reps}

TickerPrices == {<<"0">>, <<"1">>, <<"2">>}

TickerSnaps == {Mk([price |-> Amt(p)]) : p \in TickerPrices}

AccountList ==
  List(<<Mk([currency |-> Str("BTC"), balance |-> Amt(Text05)]),
         Mk([currency |-> Str("USD"), balance |-> Amt(Text100)]),
         Mk([currency |-> Str("EUR"), balance |-> Amt(Text100)])>>)

OrderList == List(<<OrderSnap("open", "str")>>)

MsgNotFound == Mk([message |-> Str("NotFound")])

MsgFunds == Mk([message |-> Str("Insufficient funds")])

JsonBodies ==
  {MsgNotFound, MsgFunds, EmptyMap, AccountList, OrderList}
    \cup OrderSnaps \cup TickerSnaps

Bodies ==
  {[text |-> "empty", json |-> None], [text |-> "nonjson", json |-> None]}
    \cup {[text |-> "json", json |-> j] : j \in JsonBodies}

StatusCodes == {200, 404, 500}

Responses == {[status |-> c, body |-> b] : c \in StatusCodes, b \in Bodies}

NoResp == [status |-> 0, body |-> [text |-> "none", json |-> None]]

(***************************************************************************)
(* Results of a function: the value returned or the exception raised, and  *)
(* what it printed.                                                        *)
(***************************************************************************)
Ret(v, o) == [exc |-> "none", val |-> v, out |-> o]

Raise(e, o) == [exc |-> e, val |-> None, out |-> o]

Line(text) == [kind |-> "line", text |-> text]

\* The exception v[k] raises for the first key of keys that cannot be read.
RECURSIVE SubscriptExc(_, _)
SubscriptExc(v, keys) ==
  IF keys = <<>> THEN "none"
  ELSE IF v.kind # "dict" THEN "TypeError"
  ELSE IF v.d[keys[1]] = Absent THEN "KeyError"
  ELSE SubscriptExc(v, Tail(keys))

apiRequestNeverPost(endpoint, params, delete, notFoundOK) ==
  [method |-> IF delete THEN "DELETE" ELSE "GET",
   endpoint |-> endpoint,
   body |-> params,
   notFoundOK |-> notFoundOK]

\* The request api issues (lines 58-63).
apiRequest(endpoint, params, delete, notFoundOK) ==
  [method |-> IF params # None THEN "POST"
              ELSE IF delete THEN "DELETE" ELSE "GET",
   endpoint |-> endpoint,
   body |-> params,
   notFoundOK |-> notFoundOK]

\* The diagnostic block api prints on a failure (lines 70-77).
ApiError(endpoint, response, params, raw) ==
  [kind |-> "ApiError", endpoint |-> endpoint, response |-> response,
   params |-> params, raw |-> raw]

apiAccepts(notFoundOK, r) ==
  r.status = 200 \/ (notFoundOK /\ r.status = 404)

apiFailureSilent(endpoint, params, r) == Ret(None, <<>>)

\* The failure branch of api (lines 70-78): only the ValueError of a body
\* that is not JSON is caught.
apiFailure(endpoint, params, r) ==
  IF r.body.text # "json"
  THEN Ret(None, <<ApiError(endpoint, Absent, params, r.body)>>)
  ELSE IF SubscriptExc(r.body.json, <<"message">>) # "none"
  THEN Raise(SubscriptExc(r.body.json, <<"message">>), <<>>)
  ELSE IF ~IsStr(r.body.json.d["message"])
  THEN Raise("TypeError", <<>>)
  ELSE Ret(None, <<ApiError(endpoint, r.body.json.d["message"], params, r.body)>>)

\* api, from the response on (lines 64-78).
api(endpoint, params, delete, notFoundOK, r) ==
  IF apiAccepts(notFoundOK, r)
  THEN IF r.body.text = "empty" THEN Ret(EmptyMap, <<>>)
       ELSE IF r.body.text = "nonjson" THEN Raise("ValueError", <<>>)
       ELSE Ret(r.body.json, <<>>)
  ELSE apiFailure(endpoint, params, r)

OrderEndpoint(oid) == <<"orders/", oid>>

IsNotFound(order) ==
  order = None \/ (Has(order, "message") /\ order.d["message"] = Str("NotFound"))

\* What getOrder prints for an order, or the exception that stops it
\* (lines 137-157).
getOrderReport(order) ==
  IF SubscriptExc(order, <<"status">>) # "none"
  THEN Raise(SubscriptExc(order, <<"status">>), <<>>)
  ELSE IF order.d["status"] \in {Str("done"), Str("settled")}
  THEN IF SubscriptExc(order, <<"side", "filled_size", "funds">>) # "none"
       THEN Raise(SubscriptExc(order, <<"side", "filled_size", "funds">>), <<>>)
       ELSE IF ~IsNum(order.d["funds"])
       THEN Raise("ValueError", <<>>)
       ELSE Ret(order, <<Line("completed")>>)
  ELSE IF order.d["status"] = Str("rejected")
  THEN Ret(order, <<Line("Order was rejected")>>)
  ELSE IF order.d["status"] \notin {Str("open"), Str("pending")}
  THEN Ret(order, <<Line("Error processing order")>>)
  ELSE IF SubscriptExc(order, <<"type", "side", "size", "price">>) # "none"
       THEN Raise(SubscriptExc(order, <<"type", "side", "size", "price">>), <<>>)
       ELSE Ret(order, <<Line("pending")>>)

\* getOrder, from the response on (lines 131-159).
getOrder(oid, silent, r) ==
  LET a == api(OrderEndpoint(oid), None, FALSE, TRUE, r) IN
  IF a.exc # "none" THEN a
  ELSE IF IsNotFound(a.val)
  THEN Ret(None, a.out \o (IF silent THEN <<>> ELSE <<Line("Order not found")>>))
  ELSE LET rep == getOrderReport(a.val)
       IN [rep EXCEPT !.out = a.out \o rep.out]

TickerEndpoint == <<"products/BTC-USD/ticker">>

\* getTicker, from the response on (lines 82-85).
getTicker(silent, r) ==
  LET a == api(TickerEndpoint, None, FALSE, FALSE, r) IN
  IF a.exc # "none" \/ silent THEN a
  ELSE IF SubscriptExc(a.val, <<"price">>) # "none"
       THEN Raise(SubscriptExc(a.val, <<"price">>), a.out)
       ELSE Ret(a.val, a.out \o <<Line("Market price")>>)

watchTickerStepStale(last, r) ==
  LET g == getTicker(TRUE, r) IN
  IF g.exc # "none" THEN g
  ELSE IF SubscriptExc(g.val, <<"price">>) # "none"
       THEN Raise(SubscriptExc(g.val, <<"price">>), g.out)
       ELSE LET tick == Decimal(g.val.d["price"].s)
            IN IF ~DecLeq(tick, last) THEN Ret(last, g.out \o <<Line("increase")>>)
               ELSE IF ~DecLeq(last, tick) THEN Ret(last, g.out \o <<Line("decrease")>>)
               ELSE Ret(last, g.out \o <<Line("unchanged")>>)

\* One iteration of watchTicker's loop, from the response on (lines 91-100):
\* val is the new value of last.
watchTickerStep(last, r) ==
  LET g == getTicker(TRUE, r) IN
  IF g.exc # "none" THEN g
  ELSE IF SubscriptExc(g.val, <<"price">>) # "none"
       THEN Raise(SubscriptExc(g.val, <<"price">>), g.out)
       ELSE LET tick == Decimal(g.val.d["price"].s)
            IN IF ~DecLeq(tick, last) THEN Ret(tick, g.out \o <<Line("increase")>>)
               ELSE IF ~DecLeq(last, tick) THEN Ret(tick, g.out \o <<Line("decrease")>>)
               ELSE Ret(tick, g.out \o <<Line("unchanged")>>)

\* The loop of getAccounts over the accounts (lines 107-111); acc is the
\* result so far, its val the currencies put in out.
RECURSIVE forAccounts(_, _, _)
forAccounts(items, silent, acc) ==
  IF items = <<>> THEN acc
  ELSE LET account == items[1] IN
       IF SubscriptExc(account, <<"currency">>) # "none"
       THEN Raise(SubscriptExc(account, <<"currency">>), acc.out)
       ELSE IF account.d["currency"] \notin {Str("BTC"), Str("USD")}
       THEN forAccounts(Tail(items), silent, acc)
       ELSE IF SubscriptExc(account, <<"balance">>) # "none"
       THEN Raise(SubscriptExc(account, <<"balance">>), acc.out)
       ELSE forAccounts(Tail(items), silent,
              Ret(acc.val \cup {account.d["currency"].s},
                  acc.out \o (IF silent THEN <<>> ELSE <<Line("balance")>>)))

Balances(currencies) == [kind |-> "balances", currencies |-> currencies]

\* getAccounts, from the response on (lines 105-112).
getAccounts(silent, r) ==
  LET a == api(<<"accounts">>, None, FALSE, FALSE, r) IN
  IF a.exc # "none" THEN a
  ELSE IF a.val = None THEN Raise("TypeError", a.out)
  ELSE IF a.val = EmptyMap THEN Ret(Balances({}), a.out)
  ELSE IF a.val.kind = "dict" THEN Raise("TypeError", a.out)
  ELSE LET l == forAccounts(a.val.items, silent, Ret({}, a.out))
       IN IF l.exc # "none" THEN l ELSE Ret(Balances(l.val), l.out)

\* The loop of getOrderList over the orders (lines 118-126).
RECURSIVE forOrders(_, _)
forOrders(items, acc) ==
  IF items = <<>> THEN acc
  ELSE LET keys == <<"id", "status", "type", "side", "size", "price">> IN
       IF SubscriptExc(items[1], keys) # "none"
       THEN Raise(SubscriptExc(items[1], keys), acc.out)
       ELSE forOrders(Tail(items), Ret(acc.val, acc.out \o <<Line("order")>>))

\* getOrderList, from the response on (lines 116-127).
getOrderList(silent, r) ==
  LET a == api(<<"orders?status=open">>, None, FALSE, FALSE, r) IN
  IF a.exc # "none" \/ silent THEN a
  ELSE IF a.val = None THEN Raise("TypeError", a.out)
  ELSE IF a.val = EmptyMap THEN a
  ELSE IF a.val.kind = "dict" THEN Raise("TypeError", a.out)
  ELSE forOrders(a.val.items, a)

placeOrderBodyPostOnly(otype, side, size, price) ==
  [product_id |-> "BTC-USD",
   type |-> otype,
   side |-> side,
   size |-> Format8(Decimal(size)),
   price |-> Format8(Decimal(price)),
   post_only |-> TRUE]

\* The body placeOrder builds (lines 163-170).
placeOrderBody(otype, side, size, price) ==
  [product_id |-> "BTC-USD",
   type |-> otype,
   side |-> side,
   size |-> Format8(Decimal(size)),
   price |-> Format8(Decimal(price)),
   post_only |-> IF otype = "market" THEN FALSE ELSE TRUE]

placeOrderConfirmedUnlessNo(action) == action \notin {"n", "N"}

\* The condition of line 180 on the answer to the prompt.
placeOrderConfirmed(action) == action \in {"y", "Y"}

\* placeOrder once result is known (lines 185-191).
placeOrderReport(silent, result, o) ==
  IF silent THEN Ret(result, o)
  ELSE IF result = None THEN Ret(result, o \o <<Line("Failed to place order!")>>)
  ELSE IF SubscriptExc(result, <<"id">>) # "none"
       THEN Raise(SubscriptExc(result, <<"id">>), o)
       ELSE IF ~IsStr(result.d["id"]) THEN Raise("TypeError", o)
       ELSE Ret(result, o \o <<Line("Order placed successfully")>>)

\* placeOrder, from the response to the POST on (lines 181-191).
placeOrderPosted(body, silent, r) ==
  LET a == api(<<"orders">>, body, FALSE, FALSE, r) IN
  IF a.exc # "none" THEN a ELSE placeOrderReport(silent, a.val, a.out)

cancelOrderStopsNever(order) == FALSE

\* cancelOrder returns at line 199 without a DELETE.
cancelOrderStops(order) == order = None

\* cancelOrder, from the response to the DELETE on (lines 201-212).
cancelOrderDeleted(oid, silent, order, r) ==
  LET a == api(OrderEndpoint(oid), None, TRUE, TRUE, r) IN
  IF a.exc # "none" \/ silent THEN a
  ELSE IF a.val # EmptyMap THEN Ret(a.val, a.out \o <<Line("Failed to cancel order!")>>)
  ELSE IF SubscriptExc(order, <<"type", "side", "size", "price">>) # "none"
       THEN Raise(SubscriptExc(order, <<"type", "side", "size", "price">>), a.out)
       ELSE IF ~IsStr(order.d["type"]) \/ ~IsStr(order.d["side"])
       THEN Raise("TypeError", a.out)
       ELSE IF ~IsNum(order.d["size"]) \/ ~IsNum(order.d["price"])
       THEN Raise("ValueError", a.out)
       ELSE Ret(a.val, a.out \o <<Line("Cancelled")>>)

\* watchOrder keeps polling (line 217).
watchOrderContinues(order) ==
  order # None /\ order.d["status"] \in {Str("open"), Str("pending")}

(***************************************************************************)
(* Invocations.  argv is the command line, program name first; amounts are *)
(* decimal texts.                                                          *)
(***************************************************************************)
AmountText(int, frac, places) ==
  Digits(int) \o (IF places = 0 THEN <<>> ELSE <<".">> \o Pad(frac, places))

SizeTexts ==
  {AmountText(0, 5, 1), AmountText(2, 0, 0), AmountText(0, 12345678, 8),
   AmountText(1, 999999996, 9), AmountText(0, 999999995, 9)}
    \cup {AmountText(0, 10 * d + k, 9) : d \in 0..1, k \in 0..9}

PriceTexts == {AmountText(30000, 0, 0), AmountText(100, 5, 1), AmountText(0, 15, 9)}

Oids == {"o1"}

Prog == "gdax"

PlaceArgvs ==
  {<<Prog, "limit", "buy", s, p>> : s \in SizeTexts, p \in PriceTexts}
    \cup {<<Prog, t, sd, AmountText(0, 5, 1), AmountText(30000, 0, 0)>> :
            t \in {"market", "limit", "stop"}, sd \in {"buy", "sell"}}
    \cup {<<Prog, sd, AmountText(0, 5, 1), AmountText(30000, 0, 0)>> : sd \in {"buy", "sell"}}
    \cup {<<Prog, sd, AmountText(0, 5, 1)>> : sd \in {"buy", "sell"}}
    \cup {<<Prog, sd>> : sd \in {"buy", "sell", "limit"}}

Argvs ==
  {<<Prog>>, <<Prog, "ticker">>, <<Prog, "balance">>, <<Prog, "orders">>,
   <<Prog, "order">>, <<Prog, "watch">>, <<Prog, "cancel">>,
   <<Prog, "live">>, <<Prog, "orderbook">>, <<Prog, "bogus">>}
    \cup {<<Prog, c, o>> : c \in {"order", "watch", "cancel"}, o \in Oids}
    \cup PlaceArgvs

NoArgs ==
  [oid |-> "", silent |-> TRUE, otype |-> "", side |-> "", size |-> <<>>, price |-> <<>>]

OrderArgs(oid, silent) == [NoArgs EXCEPT !.oid = oid, !.silent = silent]

PlaceArgs(otype, side, size, price, silent) ==
  [NoArgs EXCEPT !.otype = otype, !.side = side, !.size = size,
                 !.price = price, !.silent = silent]

\* The module's order functions called by importing code.
Calls ==
  {[fn |-> f, args |-> OrderArgs(o, sl)] :
     f \in {"getOrder", "watchOrder", "cancelOrder"}, o \in Oids, sl \in BOOLEAN}
    \cup {[fn |-> "placeOrder",
           args |-> PlaceArgs(t, "sell", AmountText(0, 5, 1), AmountText(100, 5, 1), sl)] :
            t \in {"market", "limit"}, sl \in BOOLEAN}

Entries ==
  {[kind |-> "main", argv |-> a] : a \in Argvs}
    \cup {[kind |-> "call", call |-> c] : c \in Calls}

\* The branch main takes (lines 236-259): the function and its arguments,
\* or the IndexError of reading an argument that is not there.
Dispatch(argv) ==
  LET n == Len(argv)
      A(i) == argv[i + 1]
      To(f, a) == [fn |-> f, args |-> a]
  IN IF n < 2 THEN To("help", NoArgs)
     ELSE IF A(1) = "ticker" THEN To("getTicker", OrderArgs("", FALSE))
     ELSE IF A(1) = "balance" THEN To("getAccounts", OrderArgs("", FALSE))
     ELSE IF A(1) = "orders" THEN To("getOrderList", OrderArgs("", FALSE))
     ELSE IF A(1) = "order" /\ n = 3 THEN To("getOrder", OrderArgs(A(2), FALSE))
     ELSE IF A(1) = "watch" /\ n = 3 THEN To("watchOrder", OrderArgs(A(2), FALSE))
     ELSE IF A(1) = "buy" \/ (A(1) = "sell" /\ n = 4)
     THEN IF n < 4 THEN To("IndexError", NoArgs)
          ELSE To("placeOrder", PlaceArgs("market", A(1), A(2), A(3), FALSE))
     ELSE IF A(1) \in {"market", "limit", "stop"} /\ n = 5
     THEN To("placeOrder", PlaceArgs(A(1), A(2), A(3), A(4), FALSE))
     ELSE IF A(1) = "cancel" /\ n = 3 THEN To("cancelOrder", OrderArgs(A(2), FALSE))
     ELSE IF A(1) = "live" THEN To("watchTicker", NoArgs)
     ELSE IF A(1) = "orderbook" THEN To("watchOrderBook", NoArgs)
     ELSE To("help", NoArgs)

shellExitUncaught(kind, e) ==
  IF kind # "main" THEN -1
  ELSE IF e = "none" THEN 0
  ELSE 1

\* The shell entry point (lines 279-283): the exit status of the process
\* when main ends with exception e; -1 when there is no process exit
\* because the function was called by importing code.
shellExit(kind, e) ==
  IF kind # "main" THEN -1
  ELSE IF e = "none" THEN 0
  ELSE IF e = "KeyboardInterrupt" THEN 0
  ELSE 1

\* The first request of a function.
FirstRequest(f, a) ==
  IF f \in {"getTicker", "watchTicker"} THEN apiRequest(TickerEndpoint, None, FALSE, FALSE)
  ELSE IF f = "getAccounts" THEN apiRequest(<<"accounts">>, None, FALSE, FALSE)
  ELSE IF f = "getOrderList" THEN apiRequest(<<"orders?status=open">>, None, FALSE, FALSE)
  ELSE IF f = "watchOrderBook" THEN apiRequest(<<"products/BTC-USD/book?level=2">>, None, FALSE, FALSE)
  ELSE apiRequest(OrderEndpoint(a.oid), None, FALSE, TRUE)

NoOrder == [kind |-> "unset"]

\* What a response shows of the order: the HTTP status and the order's status.
Observed(r) ==
  [code |-> r.status,
   status |-> IF r.body.text = "json" /\ Has(r.body.json, "status")
              THEN r.body.json.d["status"].s ELSE "none"]

(***************************************************************************)
(* Request signing (GDAXAuth, lines 34-54).  Texts are sequences of        *)
(* strings, bytes are numbers; HMAC-SHA256 and base64 encoding are taken   *)
(* as injective, so a signature is the key and the message it was made of. *)
(***************************************************************************)
\* Clock units in a second: the clock is read in half seconds.
Second == 2

\* Free advances of the clock in one run.
MaxClock == 2

\* str(time.time()) (line 41) of a clock reading: the seconds as a float,
\* fraction included.
TimeText(now) ==
  Digits(now \div Second) \o <<".", IF now % Second = 0 THEN "0" ELSE "5">>

\* request.path_url (line 42) of the URL API_URL + endpoint (lines 9, 59-63).
PathUrl(endpoint) == <<"/">> \o endpoint

\* json.dumps of the body of placeOrder (line 59).
dumps(params) ==
  <<"{", "product_id", params.product_id, "type", params.type,
    "side", params.side, "size">> \o params.size
    \o <<"price">> \o params.price
    \o <<"post_only", IF params.post_only THEN "true" ELSE "false", "}">>

\* A text where None can stand as well.
Text(s) == [kind |-> "str", s |-> s]

\* request.body of a request of api: None or the JSON text (lines 58-63).
RequestBody(params) == IF params = None THEN None ELSE Text(dumps(params))

SignedMessageNoBody(timestamp, method, path_url, body) ==
  timestamp \o <<method>> \o path_url

\* The message that is signed (line 42).
SignedMessage(timestamp, method, path_url, body) ==
  timestamp \o <<method>> \o path_url \o (IF body = None THEN <<>> ELSE body.s)

\* The base64 alphabet.
B64Chars ==
  <<"A", "B", "C", "D", "E", "F", "G", "H", "I", "J", "K", "L", "M",
    "N", "O", "P", "Q", "R", "S", "T", "U", "V", "W", "X", "Y", "Z",
    "a", "b", "c", "d", "e", "f", "g", "h", "i", "j", "k", "l", "m",
    "n", "o", "p", "q", "r", "s", "t", "u", "v", "w", "x", "y", "z",
    "0", "1", "2", "3", "4", "5", "6", "7", "8", "9", "+", "/">>

B64Val(ch) == (CHOOSE i \in 1..64 : B64Chars[i] = ch) - 1

IsB64(ch) == \E i \in 1..64 : B64Chars[i] = ch

\* The bytes of a group of two, three or four characters.
B64Bytes(quad) ==
  LET a == quad[1]
      b == quad[2]
  IN <<a * 4 + b \div 16>>
       \o (IF Len(quad) < 3 THEN <<>> ELSE <<(b % 16) * 16 + quad[3] \div 4>>)
       \o (IF Len(quad) < 4 THEN <<>> ELSE <<(quad[3] % 4) * 64 + quad[4]>>)

\* The decoding loop of base64.b64decode: quad is the group being read,
\* pads the padding characters seen since its last character.  A character
\* outside the alphabet is skipped, padding that completes a group of two
\* or three ends the data, other padding is skipped, and a group left
\* incomplete at the end is an error.
RECURSIVE a2b_base64(_, _, _, _)
a2b_base64(s, quad, pads, bytes) ==
  IF s = <<>>
  THEN IF quad = <<>> THEN [exc |-> "none", bytes |-> bytes]
       ELSE [exc |-> "binascii.Error", bytes |-> <<>>]
  ELSE IF Head(s) = "="
  THEN IF Len(quad) >= 2 /\ Len(quad) + pads + 1 >= 4
       THEN [exc |-> "none", bytes |-> bytes \o B64Bytes(quad)]
       ELSE a2b_base64(Tail(s), quad, IF Len(quad) >= 2 THEN pads + 1 ELSE pads, bytes)
  ELSE IF ~IsB64(Head(s)) THEN a2b_base64(Tail(s), quad, pads, bytes)
  ELSE LET q == Append(quad, B64Val(Head(s)))
       IN IF Len(q) = 4 THEN a2b_base64(Tail(s), <<>>, 0, bytes \o B64Bytes(q))
          ELSE a2b_base64(Tail(s), q, 0, bytes)

\* base64.b64decode(secret) (line 43).
b64decode(secret) == a2b_base64(secret, <<>>, 0, <<>>)

\* Lines 43-45: the signature of message under secret_key, or the
\* exception of a secret that does not decode.
Signature(secret_key, message) ==
  LET hmac_key == b64decode(secret_key)
  IN IF hmac_key.exc # "none" THEN [exc |-> hmac_key.exc]
     ELSE [exc |-> "none", key |-> hmac_key.bytes, msg |-> message]

\* GDAXAuth(api_key, secret_key, passphrase) (lines 35-38).
GDAXAuth(api_key, secret_key, passphrase) ==
  [kind |-> "GDAXAuth", api_key |-> api_key, secret_key |-> secret_key,
   passphrase |-> passphrase]

\* The credentials of auth.json (lines 230-233).
Credentials == GDAXAuth("key", <<"Y", "W", "I", "=">>, "pass")

GDAXAuthCallEpoch(self, request, now) ==
  LET timestamp == TimeText(0)
      message == SignedMessage(TimeText(now), request.method,
                               PathUrl(request.endpoint), RequestBody(request.body))
  IN [signed |-> TRUE,
      sign |-> Signature(self.secret_key, message),
      timestamp |-> timestamp,
      key |-> self.api_key,
      passphrase |-> self.passphrase]

\* GDAXAuth.__call__ (lines 40-54) when the clock reads now: the
\* authentication headers of the request.
GDAXAuthCall(self, request, now) ==
  LET timestamp == TimeText(now)
      message == SignedMessage(timestamp, request.method,
                               PathUrl(request.endpoint), RequestBody(request.body))
  IN [signed |-> TRUE,
      sign |-> Signature(self.secret_key, message),
      timestamp |-> timestamp,
      key |-> self.api_key,
      passphrase |-> self.passphrase]

\* A request sent with auth=None carries no authentication headers.
Unsigned == [signed |-> FALSE]

\* The headers requests gives the request under auth (lines 59-63).
RequestHeaders(a, request, now) ==
  IF a = None THEN Unsigned ELSE GDAXAuthCall(a, request, now)

VARIABLES
  entry,      \* how the run was started
  fn,         \* the function running
  args,       \* its arguments
  pc,         \* "start", "prompt", "wait", "sleep" or "exit"
  requests,   \* the requests issued so far
  resp,       \* the last response received
  observed,   \* what the responses to the order lookups showed
  out,        \* what was printed
  ret,        \* the value fn returned
  exc,        \* the exception that ended the run, or "none"
  exitCode,   \* the exit status of the process, -1 if none
  order,      \* the variable order of watchOrder and cancelOrder
  action,     \* the variable action of placeOrder
  last,       \* the variable last of watchTicker
  ticks,      \* iterations of watchTicker's loop completed
  auth,       \* the global auth
  clock,      \* what time.time() reads, in half seconds
  headers,    \* the authentication headers of each request issued
  signCalls,  \* two signing calls to compare: the inputs of each
  signatures  \* the signatures of the two calls

vars ==
  <<entry, fn, args, pc, requests, resp, observed, out, ret, exc, exitCode,
    order, action, last, ticks, auth, clock, headers, signCalls, signatures>>

Init ==
  /\ entry \in Entries
  /\ fn = "none"
  /\ args = NoArgs
  /\ pc = "start"
  /\ requests = <<>>
  /\ resp = NoResp
  /\ observed = <<>>
  /\ out = <<>>
  /\ ret = None
  /\ exc = "none"
  /\ exitCode = -1
  /\ order = NoOrder
  /\ action = "unset"
  /\ last = [int |-> 0, frac |-> 0, places |-> 0]
  /\ ticks = 0
  /\ auth = None
  /\ clock = 0
  /\ headers = <<>>
  /\ signCalls = <<>>
  /\ signatures = <<>>

\* The run ends with result res.
Finish(res) ==
  /\ pc' = "exit"
  /\ ret' = res.val
  /\ exc' = res.exc
  /\ out' = out \o res.out
  /\ exitCode' = shellExit(entry.kind, res.exc)

\* The run goes on, having printed o.
Continue(o) ==
  /\ out' = out \o o
  /\ UNCHANGED <<ret, exc, exitCode>>

\* A request is issued: it is signed under auth, which main has assigned
\* by then in the step that starts the run, when the clock reads now.
Send(req, now) ==
  /\ requests' = Append(requests, req)
  /\ headers' = Append(headers,
                   RequestHeaders(IF pc = "start" THEN auth' ELSE auth, req, now))
  /\ pc' = "wait"

Awaiting(f, method) ==
  /\ pc = "wait"
  /\ fn = f
  /\ requests[Len(requests)].method = method

\* The function starts: up to its first request, prompt or return.
Begin(f, a) ==
  /\ fn' = f
  /\ args' = a
  /\ UNCHANGED <<entry, clock, signCalls, signatures, resp, observed, order,
                 action, last, ticks>>
  /\ IF f = "help"
     THEN Finish(Ret(None, <<Line("usage")>>)) /\ UNCHANGED <<requests, headers>>
     ELSE IF f = "IndexError"
     THEN Finish(Raise("IndexError", <<>>)) /\ UNCHANGED <<requests, headers>>
     ELSE IF f = "placeOrder"
     THEN IF a.silent
          THEN Finish(Raise("UnboundLocalError", <<>>)) /\ UNCHANGED <<requests, headers>>
          ELSE pc' = "prompt" /\ Continue(<<Line("prompt")>>) /\ UNCHANGED <<requests, headers>>
     ELSE Send(FirstRequest(f, a), clock) /\ Continue(<<>>)

\* main (lines 228-260): the credentials are loaded into auth and the
\* command is dispatched.
main ==
  /\ pc = "start"
  /\ entry.kind = "main"
  /\ auth' = Credentials
  /\ Begin(Dispatch(entry.argv).fn, Dispatch(entry.argv).args)

\* A function of the module called by importing code.
DirectCall ==
  /\ pc = "start"
  /\ entry.kind = "call"
  /\ UNCHANGED auth
  /\ Begin(entry.call.fn, entry.call.args)

\* getTicker's request is answered (lines 82-85).
getTickerReturns ==
  /\ Awaiting("getTicker", "GET")
  /\ \E r \in Responses :
       /\ resp' = r
       /\ Finish(getTicker(args.silent, r))
  /\ UNCHANGED <<entry, auth, clock, signCalls, signatures, fn, args, requests,
                 headers, observed, order, action, last, ticks>>

\* One iteration of watchTicker (lines 90-100): the fetch is answered, the
\* price is compared and printed, and the next fetch is issued.
watchTickerLoop ==
  /\ Awaiting("watchTicker", "GET")
  /\ ticks < MaxTicks
  /\ \E r \in Responses :
       /\ resp' = r
       /\ LET st == watchTickerStep(last, r)
          IN IF st.exc # "none"
             THEN Finish(st) /\ UNCHANGED <<requests, headers, last, ticks>>
             ELSE /\ last' = st.val
                  /\ ticks' = ticks + 1
                  /\ Continue(st.out)
                  /\ Send(FirstRequest("watchTicker", args), clock)
  /\ UNCHANGED <<entry, auth, clock, signCalls, signatures, fn, args, observed,
                 order, action>>

\* getAccounts' request is answered (lines 106-112).
getAccountsReturns ==
  /\ Awaiting("getAccounts", "GET")
  /\ \E r \in Responses :
       /\ resp' = r
       /\ Finish(getAccounts(args.silent, r))
  /\ UNCHANGED <<entry, auth, clock, signCalls, signatures, fn, args, requests,
                 headers, observed, order, action, last, ticks>>

\* getOrderList's request is answered (lines 116-127).
getOrderListReturns ==
  /\ Awaiting("getOrderList", "GET")
  /\ \E r \in Responses :
       /\ resp' = r
       /\ Finish(getOrderList(args.silent, r))
  /\ UNCHANGED <<entry, auth, clock, signCalls, signatures, fn, args, requests,
                 headers, observed, order, action, last, ticks>>

\* watchOrderBook's request is answered (lines 224-225).
watchOrderBookReturns ==
  /\ Awaiting("watchOrderBook", "GET")
  /\ \E r \in Responses :
       /\ resp' = r
       /\ LET a == api(<<"products/BTC-USD/book?level=2">>, None, FALSE, FALSE, r)
          IN Finish([a EXCEPT !.val = None])
  /\ UNCHANGED <<entry, auth, clock, signCalls, signatures, fn, args, requests,
                 headers, observed, order, action, last, ticks>>

\* getOrder's request is answered (lines 131-159).
getOrderReturns ==
  /\ Awaiting("getOrder", "GET")
  /\ \E r \in Responses :
       /\ resp' = r
       /\ observed' = Append(observed, Observed(r))
       /\ Finish(getOrder(args.oid, args.silent, r))
  /\ UNCHANGED <<entry, auth, clock, signCalls, signatures, fn, args, requests,
                 headers, order, action, last, ticks>>

\* A lookup of watchOrder is answered (lines 216-220): it sleeps if the
\* order is open or pending and returns otherwise.
watchOrderPoll ==
  /\ Awaiting("watchOrder", "GET")
  /\ \E r \in Responses :
       /\ resp' = r
       /\ observed' = Append(observed, Observed(r))
       /\ LET g == getOrder(args.oid, args.silent, r)
          IN IF g.exc # "none"
             THEN Finish(g) /\ UNCHANGED order
             ELSE /\ order' = g.val
                  /\ IF watchOrderContinues(g.val)
                     THEN pc' = "sleep" /\ Continue(g.out)
                     ELSE Finish(Ret(None, g.out))
  /\ UNCHANGED <<entry, auth, clock, signCalls, signatures, fn, args, requests,
                 headers, action, last, ticks>>

\* The sleep of watchOrder is over (lines 218-219), a second later: the
\* next lookup.
watchOrderWake ==
  /\ pc = "sleep"
  /\ Len(requests) < MaxPolls
  /\ clock' = clock + Second
  /\ Send(FirstRequest("watchOrder", args), clock + Second)
  /\ UNCHANGED <<entry, auth, signCalls, signatures, fn, args, resp, observed,
                 out, ret, exc, exitCode,
                 order, action, last, ticks>>

\* The prompt of placeOrder is answered (lines 173-183).
placeOrderAnswer ==
  /\ pc = "prompt"
  /\ \E answer \in {"y", "Y", "n", ""} :
       /\ action' = answer
       /\ IF placeOrderConfirmed(answer)
          THEN /\ Send(apiRequest(<<"orders">>,
                         placeOrderBody(args.otype, args.side, args.size, args.price),
                         FALSE, FALSE), clock)
               /\ Continue(<<>>)
          ELSE /\ Finish(placeOrderReport(args.silent, None, <<>>))
               /\ UNCHANGED <<requests, headers>>
  /\ UNCHANGED <<entry, auth, clock, signCalls, signatures, fn, args, resp,
                 observed, order, last, ticks>>

\* The POST of placeOrder is answered (lines 181-191).
placeOrderReturns ==
  /\ Awaiting("placeOrder", "POST")
  /\ \E r \in Responses :
       /\ resp' = r
       /\ Finish(placeOrderPosted(requests[Len(requests)].body, args.silent, r))
  /\ UNCHANGED <<entry, auth, clock, signCalls, signatures, fn, args, requests,
                 headers, observed, order, action, last, ticks>>

\* The lookup of cancelOrder is answered (lines 195-201): it returns if
\* there is no order and issues the DELETE otherwise.
cancelOrderLooked ==
  /\ Awaiting("cancelOrder", "GET")
  /\ \E r \in Responses :
       /\ resp' = r
       /\ observed' = Append(observed, Observed(r))
       /\ LET g == getOrder(args.oid, TRUE, r)
          IN IF g.exc # "none"
             THEN Finish(g) /\ UNCHANGED <<order, requests, headers>>
             ELSE /\ order' = g.val
                  /\ IF cancelOrderStops(g.val)
                     THEN /\ Finish(Ret(None, g.out \o
                               (IF args.silent THEN <<>>
                                ELSE <<Line("Order does not exist")>>)))
                          /\ UNCHANGED <<requests, headers>>
                     ELSE /\ Send(apiRequest(OrderEndpoint(args.oid), None, TRUE, TRUE), clock)
                          /\ Continue(g.out)
  /\ UNCHANGED <<entry, auth, clock, signCalls, signatures, fn, args, action,
                 last, ticks>>

\* The DELETE of cancelOrder is answered (lines 201-212).
cancelOrderReturns ==
  /\ Awaiting("cancelOrder", "DELETE")
  /\ \E r \in Responses :
       /\ resp' = r
       /\ Finish(cancelOrderDeleted(args.oid, args.silent, order, r))
  /\ UNCHANGED <<entry, auth, clock, signCalls, signatures, fn, args, requests,
                 headers, observed, order, action, last, ticks>>

\* The request in flight fails to be sent or answered: requests raises.
ConnectionError ==
  /\ pc = "wait"
  /\ Finish(Raise("ConnectionError", <<>>))
  /\ UNCHANGED <<entry, auth, clock, signCalls, signatures, fn, args, requests,
                 headers, resp, observed, order, action, last, ticks>>

\* The user interrupts the run where it is suspended: in a request, in the
\* sleep of watchOrder or at the prompt.
KeyboardInterrupt ==
  /\ pc \in {"wait", "sleep", "prompt"}
  /\ Finish(Raise("KeyboardInterrupt", <<>>))
  /\ UNCHANGED <<entry, auth, clock, signCalls, signatures, fn, args, requests,
                 headers, resp, observed, order, action, last, ticks>>

\* Time passes while the run is in progress.
Tick ==
  /\ pc # "exit"
  /\ clock < MaxClock
  /\ clock' = clock + 1
  /\ UNCHANGED <<entry, auth, signCalls, signatures, fn, args, pc, requests,
                 headers,
                 resp, observed, out, ret, exc, exitCode, order, action, last, ticks>>

Next ==
  \/ main
  \/ DirectCall
  \/ getTickerReturns
  \/ watchTickerLoop
  \/ getAccountsReturns
  \/ getOrderListReturns
  \/ watchOrderBookReturns
  \/ getOrderReturns
  \/ watchOrderPoll
  \/ watchOrderWake
  \/ placeOrderAnswer
  \/ placeOrderReturns
  \/ cancelOrderLooked
  \/ cancelOrderReturns
  \/ ConnectionError
  \/ KeyboardInterrupt
  \/ Tick

Spec == Init /\ [][Next]_vars

(***************************************************************************)
(* Signing on its own: GDAXAuth.__call__ applied to two requests, each     *)
(* under credentials and at a reading of the clock of its own.             *)
(***************************************************************************)
\* Secrets as auth.json may hold them: three that decode, two of them to
\* the same key, and one that does not decode.
Secrets ==
  {<<"Y", "W", "I", "=">>, <<"Y", "Q", "=", "=">>, <<"Y", "R", "=", "=">>,
   <<"Y", "Q">>}

SignInputs ==
  [self : {GDAXAuth(k, sk, "pass") : k \in {"key", "key2"}, sk \in Secrets},
   request : {[method |-> m, endpoint |-> e, body |-> b, notFoundOK |-> FALSE] :
                m \in {"GET", "POST", "DELETE"},
                e \in {<<"orders">>, OrderEndpoint("o1")},
                b \in {None, placeOrderBody("market", "sell", AmountText(0, 5, 1),
                                            AmountText(100, 5, 1))}},
   now : 1..2]

SignInit ==
  /\ signCalls \in SignInputs \X SignInputs
  /\ signatures = <<>>
  /\ entry = [kind |-> "none"]
  /\ fn = "none"
  /\ args = NoArgs
  /\ pc = "exit"
  /\ requests = <<>>
  /\ resp = NoResp
  /\ observed = <<>>
  /\ out = <<>>
  /\ ret = None
  /\ exc = "none"
  /\ exitCode = -1
  /\ order = NoOrder
  /\ action = "unset"
  /\ last = [int |-> 0, frac |-> 0, places |-> 0]
  /\ ticks = 0
  /\ auth = None
  /\ clock = 0
  /\ headers = <<>>

\* The two requests are signed (lines 40-54).
SignBoth ==
  /\ signatures = <<>>
  /\ signatures' =
       [i \in 1..2 |->
          GDAXAuthCall(signCalls[i].self, signCalls[i].request, signCalls[i].now).sign]
  /\ UNCHANGED <<entry, auth, clock, signCalls, fn, args, pc, requests, headers,
                 resp, observed, out, ret, exc, exitCode, order, action, last, ticks>>

SignNext == SignBoth

SignSpec == SignInit /\ [][SignNext]_vars

(***************************************************************************)
(* The claims.                                                             *)
(***************************************************************************)
LastReq == requests[Len(requests)]

Answered == resp # NoResp

Methods(m) == {i \in 1..Len(requests) : requests[i].method = m}

Printed(text) == \E i \in 1..Len(out) : out[i] = Line(text)

\* The run ended in handling a response, not by an interrupt or a failure
\* of the transport.
EndedOnResponse ==
  pc = "exit" /\ Answered /\ exc \notin {"KeyboardInterrupt", "ConnectionError"}

\* The responses seen so far are snapshots of an existing order, all but
\* possibly the last of them pending or open.
WatchedExisting ==
  /\ fn = "watchOrder"
  /\ observed # <<>>
  /\ \A i \in 1..Len(observed) :
       observed[i].code = 200 /\ observed[i].status # "none"
  /\ \A i \in 1..(Len(observed) - 1) : observed[i].status \in {"pending", "open"}

\* C1: watching an existing order whose statuses are pending or open and
\* then a first other status, watchOrder issues one get per status seen, does
\* not return while the last status seen is pending or open, and returns the
\* snapshot with that first other status, without raising.
C1_WatchReturnsTerminalSnapshot ==
  WatchedExisting =>
    /\ Len(requests) \in {Len(observed), Len(observed) + 1}
    /\ \A i \in 1..Len(requests) : requests[i].method = "GET"
    /\ observed[Len(observed)].status \in {"pending", "open"} =>
         (pc = "exit" => exc \in {"KeyboardInterrupt", "ConnectionError"})
    /\ observed[Len(observed)].status \notin {"pending", "open"} =>
         /\ pc = "exit"
         /\ exc = "none"
         /\ Len(requests) = Len(observed)
         /\ ret = resp.body.json

\* C2: getOrder returns None, raising nothing, whenever the response is a
\* 404, whatever its body, and whenever the body has message = "NotFound".
C2_NotFoundEitherWay ==
  (fn = "getOrder" /\ EndedOnResponse
     /\ (resp.status = 404 \/ resp.body.json = MsgNotFound))
    => (exc = "none" /\ ret = None)

\* C3: a cancelOrder whose lookup gave None returns None and issues no
\* DELETE; every DELETE of cancelOrder follows a GET that gave an order.
C3_NoDeleteWithoutOrder ==
  fn = "cancelOrder" =>
    /\ order = None =>
         (pc = "exit" /\ exc = "none" /\ ret = None /\ Methods("DELETE") = {})
    /\ \A i \in Methods("DELETE") :
         /\ i > 1
         /\ requests[i - 1].method = "GET"
         /\ order.kind = "dict"
         /\ Has(order, "status")

C3_Witness ==
  /\ fn = "cancelOrder"
  /\ pc = "exit"
  /\ resp.status = 404
  /\ order = None
  /\ ret = None
  /\ Methods("DELETE") = {}

IsDigit(ch) == \E i \in 1..10 : DigitChars[i] = ch

\* t is digits, a point and exactly 8 digits.
EightPlaces(t) ==
  /\ DotPos(t) > 1
  /\ Len(t) - DotPos(t) = 8
  /\ \A i \in 1..Len(t) : i # DotPos(t) => IsDigit(t[i])

\* C4: the body placeOrder posts to orders has product_id BTC-USD, the type
\* and side given, size and price with exactly 8 digits after the point, and
\* post_only false exactly for type market; limit buy 0.5 30000 sends size
\* 0.50000000, price 30000.00000000 and post_only true.
C4_PostedBody ==
  \A i \in Methods("POST") :
    LET b == requests[i].body IN
    /\ requests[i].endpoint = <<"orders">>
    /\ args.otype \in {"market", "limit", "stop"}
    /\ b.product_id = "BTC-USD"
    /\ b.type = args.otype
    /\ b.side = args.side
    /\ EightPlaces(b.size)
    /\ EightPlaces(b.price)
    /\ DecEq(Truncate8(Decimal(b.size)), Decimal(b.size))
    /\ DecLeq(Truncate8(Decimal(args.size)), Decimal(b.size))
    /\ DecLeq(Truncate8(Decimal(args.price)), Decimal(b.price))
    /\ (b.post_only = FALSE) <=> (args.otype = "market")
    /\ (args.otype = "limit" /\ args.side = "buy"
          /\ args.size = <<"0", ".", "5">>
          /\ args.price = <<"3", "0", "0", "0", "0">>)
         => /\ b.size = <<"0", ".", "5", "0", "0", "0", "0", "0", "0", "0">>
            /\ b.price = <<"3", "0", "0", "0", "0", ".",
                           "0", "0", "0", "0", "0", "0", "0", "0">>
            /\ b.post_only = TRUE

C4_Witness ==
  /\ fn = "placeOrder"
  /\ Methods("POST") = {1}
  /\ args.otype = "limit"
  /\ args.side = "buy"
  /\ args.size = <<"0", ".", "5">>
  /\ args.price = <<"3", "0", "0", "0", "0">>
  /\ requests[1].body.post_only = TRUE

\* C5: for a response that is neither a 200 nor an allowed 404, whatever its
\* body, api raises nothing and prints a block with the endpoint, the
\* message of the body when it has one, the request body and the raw
\* response; a 500 with message "Insufficient funds" gives that message.
C5_ApiErrorCarriesDiagnostics ==
  (Answered /\ requests # <<>> /\ ~apiAccepts(LastReq.notFoundOK, resp)) =>
    LET a == api(LastReq.endpoint, LastReq.body, LastReq.method = "DELETE",
                 LastReq.notFoundOK, resp)
        msg == IF Has(resp.body.json, "message")
               THEN resp.body.json.d["message"] ELSE Absent
    IN /\ a.exc = "none"
       /\ a.out = <<ApiError(LastReq.endpoint, msg, LastReq.body, resp.body)>>
       /\ \E i \in 1..Len(out) : out[i] = a.out[1]

\* The DELETE gave an empty body under a status api accepts.
EmptySuccess(r) ==
  apiAccepts(TRUE, r) /\ (r.body.text = "empty" \/ r.body.json = EmptyMap)

\* C6: for an order that exists, cancelOrder does the get, then exactly one
\* DELETE with 404 allowed, raises nothing, and reports the cancellation
\* exactly when the DELETE gave an empty success body, a failure otherwise.
C6_CancelExistingOrder ==
  (fn = "cancelOrder" /\ order \notin {NoOrder, None}) =>
    /\ Len(requests) = 2
    /\ requests[1] = apiRequest(OrderEndpoint(args.oid), None, FALSE, TRUE)
    /\ requests[2] = apiRequest(OrderEndpoint(args.oid), None, TRUE, TRUE)
    /\ EndedOnResponse =>
         /\ exc = "none"
         /\ ~args.silent =>
              /\ Printed("Cancelled") <=> EmptySuccess(resp)
              /\ Printed("Failed to cancel order!") <=> ~EmptySuccess(resp)

\* What the outcome of a run of placeOrder tells its user, as a function of
\* the value returned, the exception raised and the output only.
PlaceOutcome ==
  IF exc = "ConnectionError" THEN "request failed to send"
  ELSE IF exc # "none" THEN "exception " \o exc
  ELSE IF \E i \in 1..Len(out) : out[i].kind = "ApiError"
  THEN "rejected by exchange"
  ELSE IF ret = None THEN "declined"
  ELSE "placed"

\* C7: the outcome of placeOrder (value returned, exception, output) tells
\* its three failures apart: a step in which the exchange rejects the order,
\* one in which the request fails to be sent and one in which the user
\* declines end in outcomes of three disjoint kinds.
C7_FailuresDistinguishable ==
  [][(fn = "placeOrder" /\ pc' = "exit") =>
       /\ ConnectionError => PlaceOutcome' = "request failed to send"
       /\ (placeOrderAnswer /\ ~placeOrderConfirmed(action'))
            => PlaceOutcome' = "declined"
       /\ (placeOrderReturns /\ resp'.status # 200)
            => PlaceOutcome' \in {"rejected by exchange",
                                  "exception KeyError", "exception TypeError"}]_vars

C7_Witness ==
  /\ fn = "placeOrder"
  /\ pc = "exit"
  /\ resp.status = 500
  /\ resp.body.json = MsgFunds
  /\ ret = None
  /\ PlaceOutcome = "rejected by exchange"
  /\ Printed("Failed to place order!")

\* C8: the size and the price placeOrder sends, parsed back, are the amounts
\* given rounded down to 8 places, so never more than the amounts given.
C8_RoundTripRoundsDown ==
  \A i \in Methods("POST") :
    LET b == requests[i].body IN
    /\ DecEq(Decimal(b.size), Truncate8(Decimal(args.size)))
    /\ DecLeq(Decimal(b.size), Decimal(args.size))
    /\ DecEq(Decimal(b.price), Truncate8(Decimal(args.price)))
    /\ DecLeq(Decimal(b.price), Decimal(args.price))

\* The responses the exchange gives to a request: a failure status or a 404
\* with any body, or a 200 with the entity of the endpoint.
ExpectedResponse(req, r) ==
  \/ r.status # 200
  \/ /\ r.body.text = "json"
     /\ IF req.endpoint = TickerEndpoint THEN r.body.json \in TickerSnaps
        ELSE IF req.endpoint = <<"accounts">> THEN r.body.json = AccountList
        ELSE IF req.endpoint = <<"orders?status=open">> THEN r.body.json = OrderList
        ELSE IF req.method = "DELETE" THEN r.body.json = EmptyMap
        ELSE IF req.endpoint = <<"products/BTC-USD/book?level=2">>
        THEN r.body.json = EmptyMap
        ELSE r.body.json \in OrderSnaps
  \/ r.body.text = "empty" /\ req.method = "DELETE"

\* C9: started from the shell with the credentials loaded, a command that
\* ends in handling a response of the server ends with exit status 0,
\* whatever the response.
C9_ExitZeroOnAnyResponse ==
  (entry.kind = "main" /\ EndedOnResponse /\ ExpectedResponse(LastReq, resp))
    => exitCode = 0

\* C10: an interrupt at a suspension point of a command started from the
\* shell ends the process in that step with exit status 0, nothing more
\* printed and no request issued, then or later.
C10_InterruptExitsClean ==
  [][/\ (entry.kind = "main" /\ exc # "KeyboardInterrupt" /\ exc' = "KeyboardInterrupt")
          => /\ pc \in {"wait", "sleep", "prompt"}
             /\ pc' = "exit"
             /\ exitCode' = 0
             /\ out' = out
             /\ requests' = requests
     /\ exc = "KeyboardInterrupt" => requests' = requests]_vars

C10_Witness ==
  /\ entry.kind = "main"
  /\ fn = "watchOrder"
  /\ Len(observed) >= 2
  /\ Len(requests) = Len(observed)
  /\ exc = "KeyboardInterrupt"
  /\ exitCode = 0

\* The step handles the response to the request in flight.
ResponseStep ==
  pc = "wait" /\ clock' = clock /\ exc' \notin {"KeyboardInterrupt", "ConnectionError"}

\* C11: a call of api issues one request and no second one whatever the
\* response: a POST with the body when a body is given, otherwise a DELETE
\* without body when delete is set, otherwise a GET without body; on a 200
\* whose body is JSON or empty it returns the parsed body, or the empty
\* mapping when the body is empty.
C11_OneRequestPerCall ==
  [][/\ Len(requests') <= Len(requests) + 1
     /\ SubSeq(requests', 1, Len(requests)) = requests
     /\ (ResponseStep /\ requests' # requests)
          => /\ fn \in {"watchTicker", "cancelOrder"}
             /\ apiAccepts(LastReq.notFoundOK, resp')
     /\ \A i \in 1..Len(requests') :
          LET q == requests'[i] IN
          /\ q.method = "POST" <=> fn' = "placeOrder"
          /\ q.method = "DELETE" <=> (fn' = "cancelOrder" /\ i = 2)
          /\ q.method = "POST" =>
               q.body = placeOrderBody(args'.otype, args'.side, args'.size, args'.price)
          /\ q.method \in {"GET", "DELETE"} => q.body = None
     /\ (ResponseStep /\ resp'.status = 200 /\ resp'.body.text \in {"json", "empty"})
          => LET a == api(LastReq.endpoint, LastReq.body, LastReq.method = "DELETE",
                          LastReq.notFoundOK, resp')
                 parsed == IF resp'.body.text = "empty" THEN EmptyMap
                           ELSE resp'.body.json
             IN /\ a = Ret(parsed, <<>>)
                /\ (fn = "cancelOrder" /\ args.silent /\ LastReq.method = "DELETE")
                     => (exc' = "none" /\ ret' = parsed)]_vars

C11_Witness ==
  /\ fn = "cancelOrder"
  /\ args.silent
  /\ Len(requests) = 2
  /\ requests[2].method = "DELETE"
  /\ resp.status = 200
  /\ resp.body.text = "empty"
  /\ ret = EmptyMap

\* The headers of the request just issued.
NewHeaders == headers'[Len(headers')]

\* The step issues a signed request.
SignedSend == requests' # requests /\ NewHeaders.signed

\* The timestamp header is the text the signed message starts with.
TimestampSigned(h) ==
  /\ h.sign.exc = "none"
  /\ Len(h.sign.msg) >= Len(h.timestamp)
  /\ SubSeq(h.sign.msg, 1, Len(h.timestamp)) = h.timestamp

\* C14 as stated: every signed request carries as its timestamp the whole
\* seconds of the clock at its signing, as a decimal text, in the header
\* and in the signed message alike.
C14_WholeSecondTimestamp ==
  [][SignedSend => /\ NewHeaders.timestamp = Digits(clock' \div Second)
                   /\ TimestampSigned(NewHeaders)]_vars

\* C14: every signed request carries as its timestamp the reading of the
\* clock at its own signing, in seconds with their fraction as a decimal
\* text, and the timestamp header is the text the signed message starts
\* with.
C14_FreshTimestamp ==
  [][SignedSend => /\ NewHeaders.timestamp =
                        Digits(clock' \div Second)
                          \o <<".", DigitChr(((clock' % Second) * 10) \div Second)>>
                   /\ TimestampSigned(NewHeaders)]_vars

\* Two requests of one run signed at different readings of the clock, the
\* second read within a second.
C14_Witness ==
  /\ Len(headers) >= 2
  /\ headers[1].signed
  /\ headers[2].signed
  /\ headers[1].timestamp = <<"0", ".", "5">>
  /\ headers[2].timestamp = <<"1", ".", "0">>
  /\ TimestampSigned(headers[2])

\* The five inputs of signing call i: timestamp, method, path, body, secret.
SignInput(i) ==
  LET c == signCalls[i]
  IN [timestamp |-> TimeText(c.now),
      method |-> c.request.method,
      path |-> PathUrl(c.request.endpoint),
      body |-> RequestBody(c.request.body),
      secret |-> c.self.secret_key]

\* Both calls have produced a signature.
BothSigned ==
  /\ signatures # <<>>
  /\ signatures[1].exc = "none"
  /\ signatures[2].exc = "none"

\* The signed message of call i is timestamp, method, path and body in that
\* order, an absent body contributing nothing.
MessageConcatenated(i) ==
  LET c == SignInput(i)
  IN signatures[i].msg =
       c.timestamp \o <<c.method>> \o c.path \o (IF c.body = None THEN <<>> ELSE c.body.s)

\* C12 as stated: two signing calls with the same timestamp, method, path,
\* body and secret produce the same signature, two calls that differ in any
\* of the five produce different signatures, and the signed message is the
\* concatenation of timestamp, method, path and body.
C12_SignatureInjective ==
  BothSigned =>
    /\ (SignInput(1) = SignInput(2)) <=> (signatures[1] = signatures[2])
    /\ MessageConcatenated(1)
    /\ MessageConcatenated(2)

\* The key the secret of call i decodes to.
SignKey(i) == b64decode(SignInput(i).secret).bytes

\* C12: two signing calls with the same timestamp, method, path and body
\* whose secrets decode to the same key produce the same signature, whatever
\* else differs between them; two calls that differ in timestamp, method,
\* path, body or the decoded key produce different signatures; and the
\* signed message is the concatenation of timestamp, method, path and body.
C12_SignatureFunction ==
  BothSigned =>
    /\ ([SignInput(1) EXCEPT !.secret = SignKey(1)]
          = [SignInput(2) EXCEPT !.secret = SignKey(2)])
         <=> (signatures[1] = signatures[2])
    /\ MessageConcatenated(1)
    /\ MessageConcatenated(2)

\* Two calls that differ only in that the second has a body and the first
\* has none: the signatures differ.
C12_Witness ==
  /\ BothSigned
  /\ SignInput(1).body = None
  /\ SignInput(2).body # None
  /\ [SignInput(1) EXCEPT !.body = SignInput(2).body] = SignInput(2)
  /\ signatures[1] # signatures[2]
  /\ signCalls[1].self.api_key # signCalls[2].self.api_key

\* The line getOrder prints for an order of status st.
ClassLine(st) ==
  IF st \in {"done", "settled"} THEN "completed"
  ELSE IF st = "rejected" THEN "Order was rejected"
  ELSE IF st \in {"pending", "open"} THEN "pending"
  ELSE "Error processing order"

\* C13: for every order snapshot the server returns, getOrder puts its
\* status in exactly one class (done or settled: completed; rejected:
\* rejected; pending or open: pending; any other: error) and returns the
\* snapshot without raising.
C13_StatusClassified ==
  (fn = "getOrder" /\ EndedOnResponse /\ resp.status = 200
     /\ resp.body.json \in OrderSnaps)
    => /\ exc = "none"
       /\ ret = resp.body.json
       /\ out = <<Line(ClassLine(resp.body.json.d["status"].s))>>

\* C15: in watchTicker every price fetched is compared with the price
\* fetched before it, with 0 at the first fetch: increase if greater,
\* decrease if less, unchanged if equal; the price becomes the remembered
\* one, and the loop goes on to the next fetch.
C15_TickerTrend ==
  [][/\ (fn = "watchTicker" /\ ticks = 0) => (last.int = 0 /\ last.frac = 0)
     /\ (fn = "watchTicker" /\ ResponseStep /\ resp'.status = 200
           /\ resp'.body.json \in TickerSnaps)
          => LET p == IntOf(resp'.body.json.d["price"].s) IN
             /\ out' = Append(out, Line(IF p > last.int THEN "increase"
                                        ELSE IF p < last.int THEN "decrease"
                                        ELSE "unchanged"))
             /\ last'.int = p
             /\ last'.frac = 0
             /\ ticks' = ticks + 1
             /\ pc' = "wait"
             /\ exc' = "none"
             /\ requests' = Append(requests, LastReq)]_vars

C15_Witness ==
  /\ fn = "watchTicker"
  /\ ticks = 3
  /\ out = <<Line("increase"), Line("decrease"), Line("unchanged")>>
  /\ pc = "wait"

\* C16: buy and sell reach placeOrder under the same condition, a command
\* line of exactly 4 arguments; with any other number of arguments neither
\* places an order nor raises, both print the usage text.
C16_BuySellSameArity ==
  (entry.kind = "main" /\ pc # "start" /\ Len(entry.argv) >= 2
     /\ entry.argv[2] \in {"buy", "sell"})
    => /\ Len(entry.argv) = 4 => fn = "placeOrder"
       /\ Len(entry.argv) # 4 =>
            (fn = "help" /\ exc = "none" /\ requests = <<>>
               /\ out = <<Line("usage")>>)

\* The server said that the order does not exist.
SaidNotFound(r) == r.status = 404 \/ r.body.json = MsgNotFound

\* C17: a lookup is taken as not found only when the server answered 404
\* or message NotFound: getOrder does not print 'Order not found',
\* watchOrder does not stop watching and cancelOrder does not print 'Order
\* does not exist' because a lookup failed with another status.
C17_NotFoundOnlyWhenSaid ==
  (fn \in {"getOrder", "watchOrder", "cancelOrder"} /\ EndedOnResponse
     /\ exc = "none" /\ ~SaidNotFound(resp))
    => /\ ~Printed("Order not found")
       /\ ~Printed("Order does not exist")
       /\ fn = "getOrder" => ret # None
       /\ fn \in {"watchOrder", "cancelOrder"} => order # None

\* C18: with silent false, placeOrder posts to orders only after the prompt
\* was answered y or Y; after any other answer it has issued no request and
\* returns None.
C18_PostOnlyAfterYes ==
  (fn = "placeOrder" /\ ~args.silent)
    => /\ requests # <<>> =>
            (action \in {"y", "Y"} /\ Len(requests) = 1
               /\ requests[1].method = "POST"
               /\ requests[1].endpoint = <<"orders">>
               /\ out[1] = Line("prompt"))
       /\ action \notin {"unset", "y", "Y"} =>
            (requests = <<>> /\ pc = "exit" /\ exc = "none" /\ ret = None)

C18_Witness ==
  /\ fn = "placeOrder"
  /\ ~args.silent
  /\ action = ""
  /\ pc = "exit"
  /\ requests = <<>>
  /\ ret = None

\* C19: with silent true, placeOrder does not prompt, issues exactly one
\* POST of the order body, prints nothing about the outcome and returns the
\* result of api, without raising.
C19_SilentPlaceOrder ==
  (fn = "placeOrder" /\ args.silent)
    => /\ ~Printed("prompt")
       /\ Len(requests) = 1
       /\ requests[1] = apiRequest(<<"orders">>,
            placeOrderBody(args.otype, args.side, args.size, args.price),
            FALSE, FALSE)
       /\ exc \in {"none", "KeyboardInterrupt", "ConnectionError"}
       /\ EndedOnResponse =>
            LET a == api(<<"orders">>, requests[1].body, FALSE, FALSE, resp)
            IN a.exc = "none" => (ret = a.val /\ out = a.out)

====
